---- MODULE Spec2Model ----
(***************************************************************************)
(* tech-news-bot (run.py): the posts table, the merge of a fetched batch   *)
(* into it, the selection of unposted rows and the per-row processing      *)
(* (rewrite, image, Telegram, VK, UPDATE), over several runs of the script *)
(* against the same news.db.                                               *)
(***************************************************************************)
EXTENDS Integers, Sequences, FiniteSets, TLC

\* ---------------------------------------------------------------- bounds
NumUrls == 2        \* distinct article URLs the feeds can carry
NumVersions == 2    \* distinct title/published texts a feed can carry for one URL
MaxBatch == 2       \* items returned by one fetch_items() call
MaxQuota == 2       \* largest MAX_POSTS value a run is started with
MaxRuns == 2        \* invocations of the script against the same news.db

URLS == 1..NumUrls
VERSIONS == 1..NumVersions
CHANNELS == {"tg", "vk"}

\* The items fetch_items() can return: url, title, published (the summary is
\* only passed to the rewrite prompt and never stored, so it is left out).  A
\* feed carries one of NumVersions texts for a URL, title and date together.
ITEMS == {[url |-> u, title |-> <<"title", v>>, published |-> <<"published", v>>] :
            u \in URLS, v \in VERSIONS}

RECURSIVE SeqsUpTo(_, _)
SeqsUpTo(S, n) ==
    IF n = 0 THEN {<<>>}
    ELSE LET shorter == SeqsUpTo(S, n - 1)
         IN  shorter \cup {Append(s, x) : s \in {t \in shorter : Len(t) = n - 1}, x \in S}

BATCHES == SeqsUpTo(ITEMS, MaxBatch)

\* ------------------------------------------------------------ pure parts

\* hash_id: SHA-256 hex digest of the URL; deterministic and, on the URLs of
\* the model, injective.  An id is never a URL.
hash_id(url) == <<"sha256", url>>

\* The row an INSERT INTO posts (id, url, title, published) creates: the two
\* flag columns take their DEFAULT 0.
new_row(item) ==
    [id |-> hash_id(item.url), url |-> item.url, title |-> item.title,
     published |-> item.published, posted_tg |-> 0, posted_vk |-> 0]

has_id(table, id) == \E j \in DOMAIN table : table[j].id = id

\* INSERT OR REPLACE instead of INSERT: the old row is deleted and a fresh one
\* (flags back to their defaults) is appended.
upsert_row_replace(table, item) ==
    Append(SelectSeq(table, LAMBDA r : r.id # hash_id(item.url)), new_row(item))

\* ON CONFLICT DO UPDATE instead of skipping: title and published of the
\* existing row are overwritten.
upsert_row_overwrite(table, item) ==
    IF has_id(table, hash_id(item.url))
    THEN [j \in DOMAIN table |->
            IF table[j].id = hash_id(item.url)
            THEN [table[j] EXCEPT !.title = item.title, !.published = item.published]
            ELSE table[j]]
    ELSE Append(table, new_row(item))

\* The table without its PRIMARY KEY: every INSERT adds a row.
upsert_row_append(table, item) == Append(table, new_row(item))

\* One iteration of the loop of upsert_items: the INSERT, with the
\* IntegrityError of the PRIMARY KEY caught and ignored.  A table is the
\* sequence of its rows in ROWID order (rows are never deleted, so a new row
\* gets the largest ROWID).
upsert_row(table, item) ==
    IF has_id(table, hash_id(item.url))
    THEN table
    ELSE Append(table, new_row(item))

RECURSIVE Reverse(_)
Reverse(s) == IF s = <<>> THEN <<>> ELSE Append(Reverse(Tail(s)), Head(s))

project(r) == [id |-> r.id, url |-> r.url, title |-> r.title]

map_project(s) == [j \in DOMAIN s |-> project(s[j])]

\* The SELECT without its WHERE clause.
select_pending_all(table) == map_project(Reverse(table))

\* The SELECT with ORDER BY ROWID (ascending) instead of ORDER BY ROWID DESC.
select_pending_oldest_first(table) ==
    map_project(SelectSeq(table, LAMBDA r : r.posted_tg = 0 \/ r.posted_vk = 0))

\* SELECT id, url, title FROM posts WHERE posted_tg = 0 OR posted_vk = 0
\* ORDER BY ROWID DESC
select_pending(table) ==
    map_project(Reverse(SelectSeq(table, LAMBDA r : r.posted_tg = 0 \/ r.posted_vk = 0)))

\* The UPDATE setting one column only: SET posted_tg = 1.
mark_posted_tg_only(table, id) ==
    [j \in DOMAIN table |->
        IF table[j].id = id THEN [table[j] EXCEPT !.posted_tg = 1] ELSE table[j]]

\* UPDATE posts SET posted_tg = 1, posted_vk = 1 WHERE id = ?
mark_posted(table, id) ==
    [j \in DOMAIN table |->
        IF table[j].id = id
        THEN [table[j] EXCEPT !.posted_tg = 1, !.posted_vk = 1]
        ELSE table[j]]

\* The flags of the row of a URL, (0, 0) when the table has no such row.
flags_of(table, url) ==
    IF has_id(table, hash_id(url))
    THEN LET r == table[CHOOSE j \in DOMAIN table : table[j].id = hash_id(url)]
         IN  [tg |-> r.posted_tg, vk |-> r.posted_vk]
    ELSE [tg |-> 0, vk |-> 0]

urls_of(s) == {s[j].url : j \in DOMAIN s}

\* ----------------------------------------------------------------- state
VARIABLES
    db,          \* the committed posts table of news.db
    conn,        \* the table as the open connection sees it (uncommitted inserts included)
    pc,          \* where the script is
    runs,        \* number of invocations started so far
    MAX_POSTS,   \* the quota of the current run
    tg_creds,    \* TELEGRAM_BOT_TOKEN and TELEGRAM_CHAT_ID are both set
    vk_creds,    \* VK_GROUP_TOKEN and VK_GROUP_ID are both set
    items,       \* the batch fetch_items() returned
    i,           \* next item of the batch upsert_items handles
    rows,        \* the result of the SELECT
    k,           \* number of rows the for loop has taken
    count,       \* the loop's counter of successful posts
    photo_bytes, \* process_item: an image is at hand
    healthy,     \* URLs for which every external call of this run succeeds
    log,         \* per URL, what this run did with it
    delivered,   \* per URL and channel, deliveries the channel confirmed, over all runs
    start_db,    \* the committed table when the run started
    last_upsert  \* what the last iteration of upsert_items did

vars == <<db, conn, pc, runs, MAX_POSTS, tg_creds, vk_creds, items, i, rows, k,
          count, photo_bytes, healthy, log, delivered, start_db, last_upsert>>

NoLog == [rw |-> "none", img |-> "none", tg |-> <<>>, vk |-> <<>>, recorded |-> FALSE]

Init ==
    /\ db = <<>>
    /\ conn = <<>>
    /\ pc = "idle"
    /\ runs = 0
    /\ MAX_POSTS = 0
    /\ tg_creds = TRUE
    /\ vk_creds = TRUE
    /\ items = <<>>
    /\ i = 1
    /\ rows = <<>>
    /\ k = 0
    /\ count = 0
    /\ photo_bytes = FALSE
    /\ healthy = {}
    /\ log = [u \in URLS |-> NoLog]
    /\ delivered = [u \in URLS |-> [c \in CHANNELS |-> 0]]
    /\ start_db = <<>>
    /\ last_upsert = "none"

cur_url == rows[k].url

\* ------------------------------------------------------- external calls

\* What one channel's block of process_item can do, as the list of delivery
\* attempts it makes: with an image the image-bearing call, and after its
\* failure the text-only call; without an image the text-only call alone.
post_attempts(photo) ==
    IF photo
    THEN {<<"photo_ok">>, <<"photo_fail", "text_ok">>, <<"photo_fail", "text_fail">>}
    ELSE {<<"text_ok">>, <<"text_fail">>}

all_ok(trace) == \A j \in DOMAIN trace : trace[j] \in {"photo_ok", "text_ok"}

\* The block returns normally when its last call did not raise.
returns(trace) == trace = <<>> \/ trace[Len(trace)] \in {"photo_ok", "text_ok"}

confirmed(trace) == trace # <<>> /\ returns(trace)

\* --------------------------------------------------------------- actions

\* run(): get_db_connection() and fetch_items().  The environment of the
\* process (MAX_POSTS, the credentials) and the batch are inputs.
StartRun ==
    /\ pc \in {"idle", "done", "crashed"}
    /\ runs < MaxRuns
    /\ runs' = runs + 1
    /\ conn' = db
    /\ start_db' = db
    /\ \E b \in BATCHES : items' = b
    /\ \E q \in 0..MaxQuota : MAX_POSTS' = q
    /\ \E t \in BOOLEAN : tg_creds' = t
    /\ \E v \in BOOLEAN : vk_creds' = v
    /\ \E h \in SUBSET URLS : healthy' = h
    /\ i' = 1
    /\ rows' = <<>>
    /\ k' = 0
    /\ count' = 0
    /\ photo_bytes' = FALSE
    /\ log' = [u \in URLS |-> NoLog]
    /\ last_upsert' = "none"
    /\ pc' = "merging"
    /\ UNCHANGED <<db, delivered>>

\* upsert_items: one iteration of its loop.
UpsertItem ==
    /\ pc = "merging"
    /\ i <= Len(items)
    /\ conn' = upsert_row(conn, items[i])
    /\ last_upsert' = IF has_id(conn, hash_id(items[i].url)) THEN "ignored" ELSE "inserted"
    /\ i' = i + 1
    /\ UNCHANGED <<db, pc, runs, MAX_POSTS, tg_creds, vk_creds, items, rows, k, count,
                   photo_bytes, healthy, log, delivered, start_db>>

\* The connection in autocommit mode (isolation_level = None): every INSERT
\* made before the error stays in the store.
MergeFault_autocommit ==
    /\ pc = "merging"
    /\ i <= Len(items)
    /\ db' = conn
    /\ pc' = "crashed"
    /\ UNCHANGED <<conn, runs, MAX_POSTS, tg_creds, vk_creds, items, i, rows, k, count,
                   photo_bytes, healthy, log, delivered, start_db, last_upsert>>

\* upsert_items: an error other than sqlite3.IntegrityError is not caught; it
\* ends the process before conn.commit(), so the inserts are rolled back.
MergeFault ==
    /\ pc = "merging"
    /\ i <= Len(items)
    /\ conn' = db
    /\ pc' = "crashed"
    /\ UNCHANGED <<db, runs, MAX_POSTS, tg_creds, vk_creds, items, i, rows, k, count,
                   photo_bytes, healthy, log, delivered, start_db, last_upsert>>

\* upsert_items: conn.commit() after the loop; run(): the SELECT and fetchall().
\* From here on the batch is read only for the summary of the prompt, which
\* the model leaves out, so the batch is dropped.
CommitSelect ==
    /\ pc = "merging"
    /\ i > Len(items)
    /\ db' = conn
    /\ rows' = select_pending(conn)
    /\ k' = 0
    /\ count' = 0
    /\ items' = <<>>
    /\ i' = 1
    /\ last_upsert' = "none"
    /\ pc' = "loop"
    /\ UNCHANGED <<conn, runs, MAX_POSTS, tg_creds, vk_creds, photo_bytes, healthy, log,
                   delivered, start_db>>

\* An off-by-one loop guard: count > MAX_POSTS.
LoopNext_late_break ==
    /\ pc = "loop"
    /\ IF k < Len(rows) /\ ~(count > MAX_POSTS)
       THEN k' = k + 1 /\ pc' = "rewrite"
       ELSE k' = k /\ pc' = "done"
    /\ UNCHANGED <<db, conn, runs, MAX_POSTS, tg_creds, vk_creds, items, i, rows, count,
                   photo_bytes, healthy, log, delivered, start_db, last_upsert>>

\* The loop guard tests the counter one post early: count + 1 >= MAX_POSTS.
LoopNext_early_break ==
    /\ pc = "loop"
    /\ IF k < Len(rows) /\ ~(count + 1 >= MAX_POSTS)
       THEN k' = k + 1 /\ pc' = "rewrite"
       ELSE k' = k /\ pc' = "done"
    /\ UNCHANGED <<db, conn, runs, MAX_POSTS, tg_creds, vk_creds, items, i, rows, count,
                   photo_bytes, healthy, log, delivered, start_db, last_upsert>>

\* run(): the head of the for loop: the next row, unless the rows are used up
\* or count >= MAX_POSTS breaks the loop.
LoopNext ==
    /\ pc = "loop"
    /\ IF k < Len(rows) /\ ~(count >= MAX_POSTS)
       THEN k' = k + 1 /\ pc' = "rewrite"
       ELSE k' = k /\ pc' = "done"
    /\ UNCHANGED <<db, conn, runs, MAX_POSTS, tg_creds, vk_creds, items, i, rows, count,
                   photo_bytes, healthy, log, delivered, start_db, last_upsert>>

\* The except branch falls through to the posting code instead of returning.
Rewrite_fallthrough ==
    /\ pc = "rewrite"
    /\ \E ok \in BOOLEAN :
        /\ cur_url \in healthy => ok
        /\ log' = [log EXCEPT ![cur_url].rw = IF ok THEN "ok" ELSE "fail"]
        /\ pc' = "image"
    /\ UNCHANGED <<db, conn, runs, MAX_POSTS, tg_creds, vk_creds, items, i, rows, k,
                   count, photo_bytes, healthy, delivered, start_db, last_upsert>>

\* process_item: rewrite_with_openrouter_ultra(); any exception (missing key,
\* network error, HTTP error status, malformed body) makes it return False.
Rewrite ==
    /\ pc = "rewrite"
    /\ \E ok \in BOOLEAN :
        /\ cur_url \in healthy => ok
        /\ log' = [log EXCEPT ![cur_url].rw = IF ok THEN "ok" ELSE "fail"]
        /\ pc' = IF ok THEN "image" ELSE "loop"
    /\ UNCHANGED <<db, conn, runs, MAX_POSTS, tg_creds, vk_creds, items, i, rows, k,
                   count, photo_bytes, healthy, delivered, start_db, last_upsert>>

\* The posting blocks test img_url instead of photo_bytes: an image counts as
\* at hand although its download or decoding failed.
FetchImage_keeps_photo ==
    /\ pc = "image"
    /\ \E img \in BOOLEAN :
        /\ photo_bytes' = TRUE
        /\ log' = [log EXCEPT ![cur_url].img = IF img THEN "photo" ELSE "absent"]
    /\ pc' = "tg"
    /\ UNCHANGED <<db, conn, runs, MAX_POSTS, tg_creds, vk_creds, items, i, rows, k,
                   count, healthy, delivered, start_db, last_upsert>>

\* process_item: extract_og_image() and fetch_and_resize(); every failure
\* leaves photo_bytes None.
FetchImage ==
    /\ pc = "image"
    /\ \E img \in BOOLEAN :
        /\ photo_bytes' = img
        /\ log' = [log EXCEPT ![cur_url].img = IF img THEN "photo" ELSE "absent"]
    /\ pc' = "tg"
    /\ UNCHANGED <<db, conn, runs, MAX_POSTS, tg_creds, vk_creds, items, i, rows, k,
                   count, healthy, delivered, start_db, last_upsert>>

\* The text-only Telegram call wrapped in a try that only logs: the block
\* always goes on to VK.
PostTelegram_swallow ==
    /\ pc = "tg"
    /\ \E trace \in (IF tg_creds THEN post_attempts(photo_bytes) ELSE {<<>>}) :
        /\ cur_url \in healthy => all_ok(trace)
        /\ log' = [log EXCEPT ![cur_url].tg = trace]
        /\ delivered' = [delivered EXCEPT ![cur_url]["tg"] =
                            IF confirmed(trace) THEN @ + 1 ELSE @]
        /\ pc' = "vk"
    /\ UNCHANGED <<db, conn, runs, MAX_POSTS, tg_creds, vk_creds, items, i, rows, k,
                   count, photo_bytes, healthy, start_db, last_upsert>>

\* process_item: the Telegram block.  post_telegram returns at once when the
\* credentials are missing; an exception of the text-only call is not caught
\* and ends the run.
PostTelegram ==
    /\ pc = "tg"
    /\ \E trace \in (IF tg_creds THEN post_attempts(photo_bytes) ELSE {<<>>}) :
        /\ cur_url \in healthy => all_ok(trace)
        /\ log' = [log EXCEPT ![cur_url].tg = trace]
        /\ delivered' = [delivered EXCEPT ![cur_url]["tg"] =
                            IF confirmed(trace) THEN @ + 1 ELSE @]
        /\ pc' = IF returns(trace) THEN "vk" ELSE "crashed"
    /\ UNCHANGED <<db, conn, runs, MAX_POSTS, tg_creds, vk_creds, items, i, rows, k,
                   count, photo_bytes, healthy, start_db, last_upsert>>

\* process_item: the VK block, of the same shape.
PostVk ==
    /\ pc = "vk"
    /\ \E trace \in (IF vk_creds THEN post_attempts(photo_bytes) ELSE {<<>>}) :
        /\ cur_url \in healthy => all_ok(trace)
        /\ log' = [log EXCEPT ![cur_url].vk = trace]
        /\ delivered' = [delivered EXCEPT ![cur_url]["vk"] =
                            IF confirmed(trace) THEN @ + 1 ELSE @]
        /\ pc' = IF returns(trace) THEN "record" ELSE "crashed"
    /\ UNCHANGED <<db, conn, runs, MAX_POSTS, tg_creds, vk_creds, items, i, rows, k,
                   count, photo_bytes, healthy, start_db, last_upsert>>

\* process_item: the UPDATE and its commit, return True; run(): count += 1.
MarkPosted ==
    /\ pc = "record"
    /\ conn' = mark_posted(conn, hash_id(cur_url))
    /\ db' = conn'
    /\ log' = [log EXCEPT ![cur_url].recorded = TRUE]
    /\ count' = count + 1
    /\ pc' = "loop"
    /\ UNCHANGED <<runs, MAX_POSTS, tg_creds, vk_creds, items, i, rows, k, photo_bytes,
                   healthy, delivered, start_db, last_upsert>>

Next ==
    \/ StartRun
    \/ UpsertItem
    \/ MergeFault
    \/ CommitSelect
    \/ LoopNext
    \/ Rewrite
    \/ FetchImage
    \/ PostTelegram
    \/ PostVk
    \/ MarkPosted

Spec == Init /\ [][Next]_vars

\* ---------------------------------------------------------------- claims

\* upsert_items as a whole: the loop over the batch, from a given table.
RECURSIVE merge_all(_, _)
merge_all(table, batch) ==
    IF batch = <<>> THEN table
    ELSE merge_all(upsert_row(table, Head(batch)), Tail(batch))

\* URLs whose row got a flag set during the current run.
flagged_in_run == {u \in URLS : flags_of(db, u) # flags_of(start_db, u)}

fully_posted(table, u) == flags_of(table, u) = [tg |-> 1, vk |-> 1]

run_over == pc \in {"done", "crashed"}

\* The SELECT has just been made: no row has been taken yet.
just_selected == pc = "loop" /\ k = 0

\* C1: no entry is successfully delivered to the same channel more than once,
\* over any sequence of runs (a channel that confirmed an entry is not tried
\* again for it).
C1_AtMostOnceDelivery ==
    \A u \in URLS : \A c \in CHANNELS : delivered[u][c] <= 1

\* C2: a channel flag of a stored entry is true only if that channel confirmed
\* a delivery of the entry before; a channel skipped for missing credentials
\* leaves its flag false.
C2_FlagImpliesConfirmed ==
    \A u \in URLS :
        /\ flags_of(db, u).tg = 1 => delivered[u]["tg"] >= 1
        /\ flags_of(db, u).vk = 1 => delivered[u]["vk"] >= 1

\* C3: when the run is over, every entry whose rewrite succeeded and whose
\* Telegram delivery failed entirely has had a VK delivery attempted (VK
\* credentials being present).
C3_VkAttemptedAfterTelegramFailure ==
    (run_over /\ vk_creds) =>
        \A u \in URLS :
            (log[u].rw = "ok" /\ log[u].tg # <<>> /\ ~returns(log[u].tg))
                => log[u].vk # <<>>

\* C4: once merge has completed and a row has been taken, no failure of a
\* collaborator call ends the run abnormally: the run ends only with the
\* quota used up or the pending rows exhausted.
C4_RunNeverAbortsInLoop ==
    /\ (pc = "crashed") => k = 0
    /\ (run_over /\ k > 0) => (count >= MAX_POSTS \/ k = Len(rows))

\* C5: an iteration of upsert_items on a URL that already has a row raises
\* nothing and leaves the table, that row's flags and other columns
\* included, as it was.
C5_UpsertExistingIsNoOp ==
    [][(pc = "merging" /\ i <= Len(items) /\ i' = i + 1
            /\ has_id(conn, hash_id(items[i].url)))
        => (conn' = conn /\ db' = db /\ pc' = "merging")]_vars

C5_Witness ==
    /\ pc = "merging"
    /\ last_upsert = "ignored"
    /\ \E j \in DOMAIN conn :
        /\ conn[j].id = hash_id(items[i - 1].url)
        /\ conn[j].posted_tg = 1
        /\ conn[j].posted_vk = 1
        /\ conn[j].title # items[i - 1].title

\* C6: a channel flag that is true stays true in every later state of the
\* store, committed or as the connection sees it.
C6_FlagsMonotonic ==
    [][\A u \in URLS :
        /\ flags_of(db, u).tg = 1 => flags_of(db', u).tg = 1
        /\ flags_of(db, u).vk = 1 => flags_of(db', u).vk = 1
        /\ flags_of(conn, u).tg = 1 => flags_of(conn', u).tg = 1
        /\ flags_of(conn, u).vk = 1 => flags_of(conn', u).vk = 1]_vars

C6_Witness ==
    /\ pc = "done"
    /\ \E u \in URLS :
        /\ fully_posted(start_db, u)
        /\ fully_posted(db, u)
        /\ \E w \in URLS \ {u} :
            /\ ~has_id(start_db, hash_id(w))
            /\ log[w].recorded

\* C7: the rows just selected hold no entry with both flags true, and an
\* entry fully delivered when the run started is neither selected nor handed
\* to the rewrite, the image fetch or a channel during the run.
C7_SelectionExcludesFullyPosted ==
    /\ just_selected => \A j \in DOMAIN rows : ~fully_posted(db, rows[j].url)
    /\ \A u \in URLS :
        fully_posted(start_db, u) => (u \notin urls_of(rows) /\ log[u] = NoLog)

C7_Witness ==
    /\ pc = "done"
    /\ k = Len(rows)
    /\ rows # <<>>
    /\ \E u \in URLS : fully_posted(start_db, u) /\ has_id(db, hash_id(u))

\* C8: in a run, the number of entries that get a flag set is at most
\* MAX_POSTS.
C8_AtMostQuotaRecorded ==
    Cardinality(flagged_in_run) <= MAX_POSTS

C8_Witness ==
    /\ pc = "done"
    /\ MAX_POSTS >= 1
    /\ Cardinality(flagged_in_run) = MAX_POSTS
    /\ k < Len(rows)

\* C9: when the run is over, if the selected rows hold at least MAX_POSTS
\* entries whose rewrite and postings succeed, exactly MAX_POSTS entries have
\* been published.
C9_QuotaFilledByHealthyEntries ==
    (run_over /\ Cardinality(healthy \cap urls_of(rows)) >= MAX_POSTS)
        => Cardinality(flagged_in_run) = MAX_POSTS

\* C10: an entry whose rewrite failed in this run has had no image fetched and
\* no delivery attempted on either channel, its flags are those it had when
\* the run started, and whatever the next batch is, the next run's selection
\* holds it.
C10_RewriteFailureLeavesEntryPending ==
    \A u \in URLS :
        log[u].rw = "fail" =>
            /\ log[u].img = "none"
            /\ log[u].tg = <<>>
            /\ log[u].vk = <<>>
            /\ ~log[u].recorded
            /\ flags_of(db, u) = flags_of(start_db, u)
            /\ \A b \in BATCHES : u \in urls_of(select_pending(merge_all(db, b)))

C10_Witness ==
    /\ pc = "done"
    /\ \E u \in URLS :
        /\ log[u].rw = "fail"
        /\ \E w \in URLS : log[w].recorded /\ rows[k].url = w /\ rows[1].url = u

\* A channel's block made a delivery attempt and its last call raised.
failed(trace) == trace # <<>> /\ ~returns(trace)

\* The entry is being processed: process_item has not returned yet.
in_process(u) == pc \in {"image", "tg", "vk", "record"} /\ cur_url = u

\* C11: an entry whose rewrite succeeded and for which no channel confirmed a
\* delivery while a delivery attempt failed keeps both flags false, and
\* whatever the next batch is, the next run's selection holds it.
C11_PostingFailureLeavesEntryPending ==
    \A u \in URLS :
        (/\ log[u].rw = "ok"
         /\ ~confirmed(log[u].tg)
         /\ ~confirmed(log[u].vk)
         /\ failed(log[u].tg) \/ failed(log[u].vk))
        => /\ ~log[u].recorded
           /\ flags_of(db, u) = [tg |-> 0, vk |-> 0]
           /\ \A b \in BATCHES : u \in urls_of(select_pending(merge_all(db, b)))

C11_Witness ==
    /\ run_over
    /\ \E u \in URLS :
        /\ log[u].rw = "ok"
        /\ failed(log[u].tg)
        /\ ~confirmed(log[u].vk)
        /\ has_id(db, hash_id(u))

\* C12: an entry processed without an image gets no image-bearing attempt and
\* at most one attempt per channel; when its rewrite succeeded and both
\* channels accepted the text-only delivery, both its flags are true once
\* process_item has returned.
C12_TextOnlyWhenImageAbsent ==
    \A u \in URLS :
        log[u].img = "absent" =>
            /\ log[u].tg \in {<<>>, <<"text_ok">>, <<"text_fail">>}
            /\ log[u].vk \in {<<>>, <<"text_ok">>, <<"text_fail">>}
            /\ (/\ log[u].rw = "ok"
                /\ log[u].tg = <<"text_ok">>
                /\ log[u].vk = <<"text_ok">>
                /\ ~in_process(u))
               => (fully_posted(db, u) /\ log[u].recorded)

C12_Witness ==
    /\ pc = "done"
    /\ \E u \in URLS :
        /\ log[u].rw = "ok"
        /\ log[u].img = "absent"
        /\ log[u].tg = <<"text_ok">>
        /\ log[u].vk = <<"text_ok">>
        /\ fully_posted(db, u)
        /\ ~fully_posted(start_db, u)

\* The place of a URL in a sequence of rows that holds it.
pos(s, u) == CHOOSE j \in DOMAIN s : s[j].url = u

\* The URL was not in the store when the run started and its row was inserted
\* and committed by this run's merge.
new_in_run(u) == ~has_id(start_db, hash_id(u)) /\ has_id(db, hash_id(u))

\* Every external call made for the first n selected rows succeeds.
healthy_upto(n) == \A j \in DOMAIN rows : j <= n => rows[j].url \in healthy

\* C13: when the run is over, an entry new in this run that stands within the
\* first MAX_POSTS selected rows, all of them healthy and both channels with
\* credentials, has exactly one row in the store, both flags true, and was
\* delivered once to each channel.
C13_NewHealthyEntryFullyPosted ==
    run_over =>
        \A u \in URLS :
            (/\ new_in_run(u)
             /\ u \in urls_of(rows)
             /\ pos(rows, u) <= MAX_POSTS
             /\ healthy_upto(pos(rows, u))
             /\ tg_creds /\ vk_creds)
            => /\ Cardinality({j \in DOMAIN db : db[j].url = u}) = 1
               /\ fully_posted(db, u)
               /\ delivered[u] = [c \in CHANNELS |-> 1]

C13_Witness ==
    /\ pc = "done"
    /\ tg_creds /\ vk_creds
    /\ \E u \in URLS :
        /\ new_in_run(u)
        /\ u \in urls_of(rows)
        /\ pos(rows, u) = 2
        /\ MAX_POSTS = 2
        /\ healthy_upto(2)
        /\ fully_posted(db, u)

\* No two rows of a table have the same URL.
one_row_per_url(table) ==
    \A a, b \in DOMAIN table : table[a].url = table[b].url => a = b

\* C14: the store, committed or as the connection sees it, never holds two
\* rows of one URL, and an entry fully delivered when the run started is not
\* in the run's selection, re-ingested or not.
C14_OneRowPerUrl ==
    /\ one_row_per_url(db)
    /\ one_row_per_url(conn)
    /\ pc \in {"loop", "rewrite", "image", "tg", "vk", "record", "done"} =>
        \A j \in DOMAIN rows : ~fully_posted(start_db, rows[j].url)

C14_Witness ==
    /\ pc = "merging"
    /\ Len(items) = 2
    /\ i = 3
    /\ items[1].url = items[2].url
    /\ fully_posted(start_db, items[1].url)
    /\ Len(conn) = Len(start_db)

\* The ROWID order of a URL's row in the store.
rowid(table, u) == CHOOSE j \in DOMAIN table : table[j].url = u

min(a, b) == IF a <= b THEN a ELSE b

\* C15: the selected rows stand in decreasing order of insertion, the rows
\* whose rewrite has been called are at every moment a prefix of them (the
\* first k, less the k-th while its rewrite is pending), and a run
\* that is done with every call of its examined rows succeeding has published
\* exactly the first MAX_POSTS selected rows (all of them when they are fewer).
C15_NewestInsertionFirst ==
    pc \in {"loop", "rewrite", "image", "tg", "vk", "record", "done"} =>
        /\ \A a, b \in DOMAIN rows :
            a < b => rowid(db, rows[a].url) > rowid(db, rows[b].url)
        /\ \A j \in DOMAIN rows :
            (log[rows[j].url].rw # "none") <=> (j < k \/ (j = k /\ pc # "rewrite"))
        /\ (pc = "done" /\ healthy_upto(k)) =>
            flagged_in_run = {rows[j].url : j \in 1..min(MAX_POSTS, Len(rows))}

C15_Witness ==
    /\ pc = "done"
    /\ Len(rows) = 2
    /\ MAX_POSTS = 1
    /\ healthy_upto(1)
    /\ flagged_in_run = {rows[1].url}
    /\ db[rowid(db, rows[1].url)].published = <<"published", 1>>
    /\ db[rowid(db, rows[2].url)].published = <<"published", 2>>

\* The merge phase of the current run was completed: the run got to the SELECT.
merge_completed == pc \notin {"idle", "merging"} /\ ~(pc = "crashed" /\ k = 0)

\* C16: a run that got past its merge phase ends in the terminal state done,
\* and there the counter equals MAX_POSTS or every selected row was examined.
C16_RunEndsDone ==
    (run_over /\ merge_completed) =>
        (pc = "done" /\ (count = MAX_POSTS \/ k = Len(rows)))

\* C17: a channel gets at most two delivery attempts for an entry in a run,
\* a failed image-bearing attempt is followed by exactly one text-only attempt
\* to the same channel, and the failure of that retry is only that channel's
\* failure: it does not end the run.
C17_FallbackFailureAbsorbed ==
    \A u \in URLS : \A t \in {log[u].tg, log[u].vk} :
        /\ Len(t) <= 2
        /\ (t # <<>> /\ t[1] = "photo_fail") =>
                (Len(t) = 2 /\ t[2] \in {"text_ok", "text_fail"})
        /\ t = <<"photo_fail", "text_fail">> => pc # "crashed"

\* A step that ends the run by an error during the merge phase.
merge_fault_step == pc = "merging" /\ pc' = "crashed"

\* A step that ends the run by an exception of a posting call.
post_fault_step == pc \in {"tg", "vk"} /\ pc' = "crashed"

\* The step of the UPDATE and its commit.
update_step == pc = "record" /\ pc' = "loop"

\* C18 (as stated): every insert is committed on its own, so after a fault in
\* the merge phase the rows inserted so far are in the store; a flag update
\* is in the store once made and stays there through a later crash.
C18_EachInsertCommitted ==
    [][/\ merge_fault_step => db' = conn
       /\ update_step => fully_posted(db', cur_url)
       /\ post_fault_step => db' = db]_vars

\* C18 (amended): the inserts of a batch are committed together after the
\* loop of upsert_items: they are not in the store while the merge goes on,
\* a fault in the merge phase leaves the store as it was when the run started,
\* and the commit puts all of them in; a flag update is in the store once
\* made and stays there through a later crash; the next run starts from the
\* committed store.
C18_BatchCommittedAtOnce ==
    [][/\ merge_fault_step => (db' = start_db /\ conn' = db')
       /\ (pc = "merging" /\ pc' = "merging") => db' = db
       /\ (pc = "merging" /\ pc' = "loop") => db' = conn
       /\ update_step => fully_posted(db', cur_url)
       /\ post_fault_step => db' = db
       /\ (run_over /\ pc' = "merging") => (db' = db /\ conn' = db /\ start_db' = db)]_vars

C18_Witness ==
    /\ pc = "crashed"
    /\ k = 0
    /\ i > 1
    /\ last_upsert = "inserted"
    /\ db = start_db
    /\ \E j \in 1..(i - 1) : ~has_id(db, hash_id(items[j].url))

\* C19: in the store, committed or as the connection sees it, the two flags
\* of every row are equal.
C19_FlagsEqual ==
    /\ \A j \in DOMAIN db : db[j].posted_tg = db[j].posted_vk
    /\ \A j \in DOMAIN conn : conn[j].posted_tg = conn[j].posted_vk

C19_Witness ==
    /\ pc = "done"
    /\ ~tg_creds
    /\ vk_creds
    /\ \E u \in flagged_in_run :
        /\ fully_posted(db, u)
        /\ log[u].tg = <<>>
        /\ confirmed(log[u].vk)

====
